---- MODULE Spec2Model ----
(***************************************************************************)
(* A model of the Arbitrum extension of go-ethereum's StateDB              *)
(* (core/state/statedb_arbitrum.go): the in-flight wasm activation layer   *)
(* and its journal, the lookups that merge it with the wasm store, the     *)
(* Stylus prefix codec and the recent-wasms cache.                         *)
(*                                                                         *)
(* A behaviour of Spec is one mutation cycle of one StateDB: no commit     *)
(* happens in it.                                                          *)
(***************************************************************************)
EXTENDS Integers, Sequences, FiniteSets, TLC

\* ------------------------------------------------------------------ bounds

\* The journal holds at most MaxJournal entries.
MaxJournal == 2
\* At most MaxRevisions snapshots are outstanding at a time.
MaxRevisions == 1
\* Target lists passed to ActivatedAsmMap have at most MaxTargets elements.
MaxTargets == 2

\* Byte strings passed to the prefix codec have at most MaxLen bytes.
MaxLen == 5
\* Insert is passed a retain of 1..MaxRetain.
MaxRetain == 2
\* At most MaxPageCalls calls change a page counter.
MaxPageCalls == 3
\* An account's storage has the keys 1..MaxKeys.
MaxKeys == 2
\* The random draws of execStateTest are 0..MaxDraw, for at most MaxSubtests
\* subtests of a test.
MaxDraw == 7
MaxSubtests == 2

\* ------------------------------------------------------------------ values

\* common.Hash values used as module hashes.
Hashes == {"h1", "h2"}
\* rawdb.WasmTarget values.
Targets == {"t1", "t2"}
\* Non-empty assembly binaries.
Artifacts == {"a1", "a2"}
\* The empty (or nil) byte slice.
NoAsm == ""

\* A Go map[rawdb.WasmTarget][]byte: isNil tells the nil map from an empty
\* one (both have length 0 and no keys), asm is the mapping.
EmptyAsm == [t \in {} |-> NoAsm]
NilAsmMap == [isNil |-> TRUE, asm |-> EmptyAsm]
AsmMapOf(f) == [isNil |-> FALSE, asm |-> f]
ActivatedWasm ==
    {NilAsmMap} \cup {AsmMapOf(f) : f \in UNION {[ts -> Artifacts] : ts \in SUBSET Targets}}

\* The keys of a Go map, and len() of it.
MapKeys(m) == DOMAIN m.asm
MapLen(m) == Cardinality(DOMAIN m.asm)

\* Target lists (Go slices), possibly with repetitions.
TargetLists == UNION {[1..n -> Targets] : n \in 0..MaxTargets}

\* ------------------------------------------------------------------ state

VARIABLES
    activatedWasms,  \* arbExtraData.activatedWasms: hash -> ActivatedWasm
    journal,         \* journal.entries
    validRevisions,  \* outstanding snapshots: the journal index of each
    wasmStore,       \* the wasm store behind s.db: <<target, hash>> -> status
    lastCall,        \* the last call made and what it returned
    pre,             \* history: the StateDB before the last call, if an ActivateWasm
    snapKeys,        \* history: the in-flight keys when each snapshot was taken
    firstTargets,    \* history: the target set of the first bundle inserted, if any
    code,            \* the byte string passed to the prefix codec
    codecRet,        \* what the last call of the prefix codec returned
    recentWasms,     \* arbExtraData.recentWasms: a RecentWasms value
    recentCopy,      \* the RecentWasms value of a copy of the StateDB
    lruHeap,         \* the lru.BasicLRU objects allocated and still referenced
    recentRet,       \* the last call on the recent-wasms cache and what it returned
    inserted,        \* history: per holder, the items inserted and not evicted since
    recentHist,      \* history: per holder the retain of its first Insert; whether Copy ran
    openWasmPages,   \* arbExtraData.openWasmPages (uint16)
    everWasmPages,   \* arbExtraData.everWasmPages (uint16)
    snapPages,       \* history: the page counters when each snapshot was taken
    pageCalls,       \* history: the number of calls that changed a page counter
    stateObjects,    \* s.stateObjects: address -> the live account object
    stateObjectsDestruct, \* s.stateObjectsDestruct: the addresses destructed this cycle
    dirties,         \* journal.dirties: the addresses the journal's entries dirtied
    storageTries,    \* per address, the persisted storage trie behind so.getTrie()
    userWasms,       \* arbExtraData.userWasms: nil, or hash -> ActivatedWasm
    recordingStarted \* history: whether StartRecording was called

\* The activation layer, its journal and the wasm store.
overlayVars == <<activatedWasms, journal, validRevisions, wasmStore, lastCall, pre,
                 snapKeys, firstTargets>>
\* The prefix codec's input and result.
codecVars == <<code, codecRet>>
\* The recent-wasms cache.
recentVars == <<recentWasms, recentCopy, lruHeap, recentRet, inserted, recentHist>>

\* The Stylus page counters.
pageVars == <<openWasmPages, everWasmPages, snapPages, pageCalls>>
\* The accounts of the overlay and their storage.
facadeVars == <<stateObjects, stateObjectsDestruct, dirties, storageTries>>

\* The programs recorded.
recordingVars == <<userWasms, recordingStarted>>

vars == <<overlayVars, codecVars, recentVars, pageVars, facadeVars, recordingVars>>

\* What a call may modify of the StateDB.
stateDB == <<activatedWasms, journal, validRevisions, wasmStore>>
\* pre after a call that is not an ActivateWasm.
NoPre == <<>>

\* Journal entries. The cache and evict entries are opaque to the overlay.
wasmActivation(moduleHash) == [kind |-> "wasmActivation", moduleHash |-> moduleHash]
CacheWasm == [kind |-> "CacheWasm"]
EvictWasm == [kind |-> "EvictWasm"]

\* The nil error.
NoError == "nil"

\* firstTargets when no bundle was inserted yet in this cycle; {ts} afterwards.
NoTargets == {}

\* The wasm store holds, for a target and a hash, an artifact or nothing, or
\* fails to read with a fault other than "not found".
StoreStatus == {"notfound", "fault", "a2"}
StoreKeys == Targets \X Hashes

\* Addresses, and the account objects of the overlay (none at first).
Addresses == {"x1", "x2", "x3"}
NoObjects == [addr \in {} |-> <<>>]
NoTries == [addr \in {} |-> <<>>]

\* -------------------------------------------------------------- ActivateWasm

\* Mutant: the lengths are compared and the targets are not.
TargetsInconsistentLenOnly(asmMap, previouslyActivated) ==
    MapLen(asmMap) # MapLen(previouslyActivated)

\* Mutant: the targets are looked up and the lengths are not compared.
TargetsInconsistentNoLen(asmMap, previouslyActivated) ==
    \E target \in MapKeys(previouslyActivated) : target \notin MapKeys(asmMap)

\* Mutant: a bundle with more targets than the previous one passes.
TargetsInconsistentFewerOnly(asmMap, previouslyActivated) ==
    \/ MapLen(asmMap) < MapLen(previouslyActivated)
    \/ \E target \in MapKeys(previouslyActivated) : target \notin MapKeys(asmMap)

\* The consistency test of one previously activated bundle against asmMap.
TargetsInconsistent(asmMap, previouslyActivated) ==
    \/ MapLen(asmMap) # MapLen(previouslyActivated)
    \/ \E target \in MapKeys(previouslyActivated) : target \notin MapKeys(asmMap)

\* The bundles the range loop may visit first: Go's map iteration order is
\* unspecified, and the loop breaks after its first element.
FirstRanged(wasms) == DOMAIN wasms

\* Mutant: the existence test is dropped.
ActivationExistsNever(wasms, moduleHash) == FALSE

\* _, exists := s.arbExtraData.activatedWasms[moduleHash]
ActivationExists(wasms, moduleHash) == moduleHash \in DOMAIN wasms

\* Mutant: the bundle is journaled and not stored.
StoreActivationDropped(wasms, moduleHash, asmMap) == wasms

\* s.arbExtraData.activatedWasms[moduleHash] = asmMap
StoreActivation(wasms, moduleHash, asmMap) ==
    [h \in DOMAIN wasms \cup {moduleHash} |-> IF h = moduleHash THEN asmMap ELSE wasms[h]]

\* Mutant: the activation is not journaled.
JournalActivationDropped(entries, moduleHash) == entries

\* s.journal.append(wasmActivation{moduleHash: moduleHash})
JournalActivation(entries, moduleHash) == Append(entries, wasmActivation(moduleHash))

\* ActivateWasm with `first` the bundle its loop visits ("none": the map is empty).
\* lastCall notes the hash and the target set of the bundle passed, the error
\* returned and whether the bundle was inserted.
ActivateWasmFrom(moduleHash, asmMap, first) ==
    LET inconsistent ==
            first # "none" /\ TargetsInconsistent(asmMap, activatedWasms[first])
        exists == ActivationExists(activatedWasms, moduleHash)
        inserts == ~inconsistent /\ ~exists
    IN  /\ inserts => Len(journal) < MaxJournal
        /\ lastCall' = [op |-> "ActivateWasm", moduleHash |-> moduleHash,
                        targets |-> MapKeys(asmMap), err |-> inconsistent,
                        inserted |-> inserts]
        /\ pre' = stateDB
        /\ IF inserts
           THEN /\ activatedWasms' = StoreActivation(activatedWasms, moduleHash, asmMap)
                /\ journal' = JournalActivation(journal, moduleHash)
                /\ firstTargets' =
                       IF firstTargets = NoTargets THEN {MapKeys(asmMap)} ELSE firstTargets
           ELSE UNCHANGED <<activatedWasms, journal, firstTargets>>
        /\ UNCHANGED <<validRevisions, wasmStore, snapKeys, codecVars, recentVars, pageVars, facadeVars, recordingVars>>

ActivateWasm(moduleHash, asmMap) ==
    IF FirstRanged(activatedWasms) = {}
    THEN ActivateWasmFrom(moduleHash, asmMap, "none")
    ELSE \E first \in FirstRanged(activatedWasms) :
            ActivateWasmFrom(moduleHash, asmMap, first)

\* ------------------------------------------------- RecordCacheWasm, RecordEvictWasm

RecordCacheWasm(wasm) ==
    /\ Len(journal) < MaxJournal
    /\ journal' = Append(journal, wasm)
    /\ lastCall' = [op |-> "RecordCacheWasm"]
    /\ pre' = NoPre
    /\ UNCHANGED <<activatedWasms, validRevisions, wasmStore, snapKeys, firstTargets,
                   codecVars, recentVars, pageVars, facadeVars, recordingVars>>

RecordEvictWasm(wasm) ==
    /\ Len(journal) < MaxJournal
    /\ journal' = Append(journal, wasm)
    /\ lastCall' = [op |-> "RecordEvictWasm"]
    /\ pre' = NoPre
    /\ UNCHANGED <<activatedWasms, validRevisions, wasmStore, snapKeys, firstTargets,
                   codecVars, recentVars, pageVars, facadeVars, recordingVars>>

\* ------------------------------------------------------ Snapshot, RevertToSnapshot

\* The undo of one journal entry: an activation entry removes its key, a cache
\* or evict entry has nothing of the overlay to undo.
UndoEntry(wasms, entry) ==
    IF entry.kind = "wasmActivation"
    THEN [h \in DOMAIN wasms \ {entry.moduleHash} |-> wasms[h]]
    ELSE wasms

\* The in-flight layer after the entries above index id are undone, last first.
RECURSIVE RevertEntries(_, _, _)
RevertEntries(wasms, entries, id) ==
    IF Len(entries) <= id
    THEN wasms
    ELSE RevertEntries(UndoEntry(wasms, entries[Len(entries)]),
                       SubSeq(entries, 1, Len(entries) - 1), id)

\* Snapshot(): the identifier is the journal's length.
Snapshot ==
    /\ Len(validRevisions) < MaxRevisions
    /\ validRevisions' = Append(validRevisions, Len(journal))
    /\ snapKeys' = Append(snapKeys, DOMAIN activatedWasms)
    /\ snapPages' = Append(snapPages, <<openWasmPages, everWasmPages>>)
    /\ lastCall' = [op |-> "Snapshot"]
    /\ pre' = NoPre
    /\ UNCHANGED <<activatedWasms, journal, wasmStore, firstTargets, openWasmPages,
                   everWasmPages, pageCalls, codecVars, recentVars, facadeVars, recordingVars>>

\* Mutant: the revert also puts the page counters back to the snapshot's.
RevertToSnapshotWithPages(idx) ==
    LET id == validRevisions[idx]
        reverted == RevertEntries(activatedWasms, journal, id)
    IN  /\ activatedWasms' = reverted
        /\ journal' = SubSeq(journal, 1, id)
        /\ validRevisions' = SubSeq(validRevisions, 1, idx - 1)
        /\ snapKeys' = SubSeq(snapKeys, 1, idx - 1)
        /\ snapPages' = SubSeq(snapPages, 1, idx - 1)
        /\ openWasmPages' = snapPages[idx][1]
        /\ everWasmPages' = snapPages[idx][2]
        /\ lastCall' = [op |-> "RevertToSnapshot", id |-> id, keys |-> snapKeys[idx],
                        removed |-> DOMAIN activatedWasms \ DOMAIN reverted,
                        pagesAtSnapshot |-> snapPages[idx],
                        pagesBefore |-> <<openWasmPages, everWasmPages>>]
        /\ pre' = NoPre
        /\ UNCHANGED <<wasmStore, firstTargets, pageCalls, codecVars, recentVars,
                       facadeVars, recordingVars>>

\* RevertToSnapshot of the idx-th outstanding snapshot; it and the later ones
\* are no longer valid afterwards. lastCall notes the snapshot's identifier, the
\* in-flight keys when it was taken, the hashes the undo removed, and the page
\* counters when the snapshot was taken and right before the revert.
RevertToSnapshot(idx) ==
    LET id == validRevisions[idx]
        reverted == RevertEntries(activatedWasms, journal, id)
    IN  /\ activatedWasms' = reverted
        /\ journal' = SubSeq(journal, 1, id)
        /\ validRevisions' = SubSeq(validRevisions, 1, idx - 1)
        /\ snapKeys' = SubSeq(snapKeys, 1, idx - 1)
        /\ snapPages' = SubSeq(snapPages, 1, idx - 1)
        /\ lastCall' = [op |-> "RevertToSnapshot", id |-> id, keys |-> snapKeys[idx],
                        removed |-> DOMAIN activatedWasms \ DOMAIN reverted,
                        pagesAtSnapshot |-> snapPages[idx],
                        pagesBefore |-> <<openWasmPages, everWasmPages>>]
        /\ pre' = NoPre
        /\ UNCHANGED <<wasmStore, firstTargets, openWasmPages, everWasmPages, pageCalls,
                       codecVars, recentVars, facadeVars, recordingVars>>

\* ------------------------------------------------- ActivatedAsm, ActivatedAsmMap

\* s.db.ActivatedAsm(target, moduleHash): the artifact stored, or the empty
\* slice. Its one result cannot tell a fault from "not found".
dbActivatedAsm(target, moduleHash) ==
    IF wasmStore[<<target, moduleHash>>] \in Artifacts
    THEN wasmStore[<<target, moduleHash>>]
    ELSE NoAsm

\* Mutant: a bundle in flight that lacks the target ends the lookup.
ActivatedAsmNoFallThrough(wasms, target, moduleHash) ==
    IF moduleHash \in DOMAIN wasms
    THEN IF target \in MapKeys(wasms[moduleHash])
         THEN [asm |-> wasms[moduleHash].asm[target], dbReads |-> {}]
         ELSE [asm |-> NoAsm, dbReads |-> {}]
    ELSE [asm |-> dbActivatedAsm(target, moduleHash),
          dbReads |-> {<<target, moduleHash>>}]

\* What ActivatedAsm returns, and the store reads it makes.
ActivatedAsmResult(wasms, target, moduleHash) ==
    IF moduleHash \in DOMAIN wasms /\ target \in MapKeys(wasms[moduleHash])
    THEN [asm |-> wasms[moduleHash].asm[target], dbReads |-> {}]
    ELSE [asm |-> dbActivatedAsm(target, moduleHash),
          dbReads |-> {<<target, moduleHash>>}]

ActivatedAsm(target, moduleHash) ==
    LET r == ActivatedAsmResult(activatedWasms, target, moduleHash)
    IN  /\ lastCall' = [op |-> "ActivatedAsm", target |-> target,
                        moduleHash |-> moduleHash, asm |-> r.asm, dbReads |-> r.dbReads]
        /\ pre' = NoPre
        /\ UNCHANGED <<activatedWasms, journal, validRevisions, wasmStore, snapKeys,
                       firstTargets, codecVars, recentVars, pageVars, facadeVars, recordingVars>>

\* asmMap := s.arbExtraData.activatedWasms[moduleHash]: nil for a missing key.
InFlightAsmMap(wasms, moduleHash) ==
    IF moduleHash \in DOMAIN wasms THEN wasms[moduleHash] ELSE NilAsmMap

\* Mutant: only the first requested target is looked up in the bundle.
InFlightCompleteFirstOnly(asmMap, targets) ==
    targets # <<>> => targets[1] \in MapKeys(asmMap)

\* The loop over the requested targets finds each in the in-flight bundle.
InFlightComplete(asmMap, targets) ==
    \A i \in 1..Len(targets) : targets[i] \in MapKeys(asmMap)

\* The requested targets the store has no artifact for, in request order.
RECURSIVE MissingTargets(_, _)
MissingTargets(targets, moduleHash) ==
    IF targets = <<>>
    THEN <<>>
    ELSE (IF dbActivatedAsm(Head(targets), moduleHash) = NoAsm
          THEN <<Head(targets)>>
          ELSE <<>>) \o MissingTargets(Tail(targets), moduleHash)

\* Mutant: the fallback loop stores what the store returned, empty or not.
FoundAsmMapWithEmpty(targets, moduleHash) ==
    AsmMapOf([t \in {targets[i] : i \in 1..Len(targets)} |->
                 dbActivatedAsm(t, moduleHash)])

\* The map the fallback loop fills from the store.
FoundAsmMap(targets, moduleHash) ==
    LET found == {targets[i] : i \in {j \in 1..Len(targets) :
                                        dbActivatedAsm(targets[j], moduleHash) # NoAsm}}
    IN  AsmMapOf([t \in found |-> dbActivatedAsm(t, moduleHash)])

\* What ActivatedAsmMap returns, and the store reads it makes.
ActivatedAsmMapResult(wasms, targets, moduleHash) ==
    LET asmMap == InFlightAsmMap(wasms, moduleHash)
    IN  IF ~asmMap.isNil
        THEN IF InFlightComplete(asmMap, targets)
             THEN [asmMap |-> asmMap, missing |-> <<>>, err |-> FALSE, dbReads |-> {}]
             ELSE [asmMap |-> NilAsmMap, missing |-> targets, err |-> TRUE,
                   dbReads |-> {}]
        ELSE [asmMap |-> FoundAsmMap(targets, moduleHash),
              missing |-> MissingTargets(targets, moduleHash), err |-> FALSE,
              dbReads |-> {<<targets[i], moduleHash>> : i \in 1..Len(targets)}]

ActivatedAsmMap(targets, moduleHash) ==
    LET r == ActivatedAsmMapResult(activatedWasms, targets, moduleHash)
    IN  /\ lastCall' = [op |-> "ActivatedAsmMap", targets |-> targets,
                        moduleHash |-> moduleHash, asmMap |-> r.asmMap,
                        missing |-> r.missing, err |-> r.err, dbReads |-> r.dbReads]
        /\ pre' = NoPre
        /\ UNCHANGED <<activatedWasms, journal, validRevisions, wasmStore, snapKeys,
                       firstTargets, codecVars, recentVars, pageVars, facadeVars, recordingVars>>

\* ------------------------------------------------------------ the page counters

\* The largest uint16, and the page counts passed to the calls.
MaxUint16 == 65535
PageAmounts == {3, 5, 65530}
PagesOpen == {0, 5}

\* common.SaturatingUAdd on uint16: the sum, or the largest value if it wrapped.
SaturatingUAdd(a, b) ==
    LET sum == (a + b) % (MaxUint16 + 1)
    IN  IF sum < a THEN MaxUint16 ELSE sum

\* common.MaxInt
MaxInt(a, b) == IF a > b THEN a ELSE b

\* GetStylusPages(): (open, ever)
GetStylusPages == <<openWasmPages, everWasmPages>>

\* Mutant: the addition wraps around.
AddStylusPagesWrapping(open, ever, new) ==
    LET newOpen == (open + new) % (MaxUint16 + 1)
    IN  [open |-> newOpen, ever |-> MaxInt(ever, newOpen), ret |-> <<open, ever>>]

\* AddStylusPages(new) on the counters (open, ever): the counters afterwards and
\* the pair returned.
AddStylusPagesResult(open, ever, new) ==
    LET newOpen == SaturatingUAdd(open, new)
    IN  [open |-> newOpen, ever |-> MaxInt(ever, newOpen), ret |-> <<open, ever>>]

AddStylusPages(new) ==
    LET pages == GetStylusPages
        r == AddStylusPagesResult(pages[1], pages[2], new)
    IN  /\ pageCalls < MaxPageCalls
        /\ openWasmPages' = r.open
        /\ everWasmPages' = r.ever
        /\ pageCalls' = pageCalls + 1
        /\ lastCall' = [op |-> "AddStylusPages", new |-> new, ret |-> r.ret,
                        before |-> <<openWasmPages, everWasmPages>>]
        /\ pre' = NoPre
        /\ UNCHANGED <<activatedWasms, journal, validRevisions, wasmStore, snapKeys,
                       firstTargets, snapPages, codecVars, recentVars, facadeVars, recordingVars>>

AddStylusPagesEver(new) ==
    /\ pageCalls < MaxPageCalls
    /\ everWasmPages' = SaturatingUAdd(everWasmPages, new)
    /\ pageCalls' = pageCalls + 1
    /\ lastCall' = [op |-> "AddStylusPagesEver", new |-> new,
                    before |-> <<openWasmPages, everWasmPages>>]
    /\ pre' = NoPre
    /\ UNCHANGED <<activatedWasms, journal, validRevisions, wasmStore, snapKeys,
                   firstTargets, openWasmPages, snapPages, codecVars, recentVars,
                   facadeVars, recordingVars>>

SetStylusPagesOpen(open) ==
    /\ pageCalls < MaxPageCalls
    /\ openWasmPages' = open
    /\ pageCalls' = pageCalls + 1
    /\ lastCall' = [op |-> "SetStylusPagesOpen", open |-> open,
                    before |-> <<openWasmPages, everWasmPages>>]
    /\ pre' = NoPre
    /\ UNCHANGED <<activatedWasms, journal, validRevisions, wasmStore, snapKeys,
                   firstTargets, everWasmPages, snapPages, codecVars, recentVars,
                   facadeVars, recordingVars>>

\* ------------------------------------------------------------- forEachStorage

\* Storage keys, in the order the trie iterator yields them.
Keys == 1..MaxKeys
\* Values of the dirty overlay and values persisted.
DirtyValues == {"v1"}
StoredValues == {"v0", "v2"}
NoStorage == [key \in {} |-> ""]

\* The leaves of a storage trie: the encoding of a value, a zero-length leaf, or
\* bytes that do not decode.
RlpLeaf(content) == [kind |-> "string", content |-> content]
EmptyLeaf == [kind |-> "empty", content |-> ""]
MalformedLeaf == [kind |-> "malformed", content |-> ""]
Leaves == {RlpLeaf(v) : v \in StoredValues} \cup {EmptyLeaf, MalformedLeaf}
\* len(it.Value)
LeafLen(leaf) == IF leaf.kind = "empty" THEN 0 ELSE 1
\* rlp.Split(it.Value): the content of the encoded string, or an error.
rlpSplit(leaf) ==
    IF leaf.kind = "string"
    THEN [content |-> leaf.content, err |-> NoError]
    ELSE [content |-> "", err |-> "rlp error"]

\* An account object of the overlay, and the nil *stateObject.
StateObject(selfDestructed, dirtyStorage) ==
    [selfDestructed |-> selfDestructed, dirtyStorage |-> dirtyStorage]
NilObject == <<>>
\* s.getStateObject(addr): the live object at addr, or nil.
getStateObject(addr) ==
    IF addr \in DOMAIN stateObjects THEN <<stateObjects[addr]>> ELSE NilObject

\* A storage trie: whether so.getTrie() and tr.NodeIterator(nil) succeed, and
\* its leaves.
TrieStatus == {"ok", "getTrie error", "NodeIterator error"}
StorageTrie(status, leaves) == [status |-> status, leaves |-> leaves]
\* The keys of the leaves, as trie.NewIterator goes through them.
TrieKeys(leaves) ==
    CHOOSE keys \in [1..Cardinality(DOMAIN leaves) -> DOMAIN leaves] :
        \A i, j \in DOMAIN keys : i < j => keys[i] < keys[j]

\* The callback passed: it returns false on the keys of stopKeys.
cb(stopKeys, key, value) == key \notin stopKeys

\* Mutant: a false return on a dirty entry does not end the iteration.
RECURSIVE IterateDirtyGoesOn(_, _, _, _, _)
IterateDirtyGoesOn(keys, leaves, dirtyStorage, stopKeys, calls) ==
    IF keys = <<>>
    THEN [calls |-> calls, err |-> NoError]
    ELSE LET key == Head(keys)
             split == rlpSplit(leaves[key])
         IN  IF key \in DOMAIN dirtyStorage
             THEN IterateDirtyGoesOn(Tail(keys), leaves, dirtyStorage, stopKeys,
                      Append(calls, [key |-> key, value |-> dirtyStorage[key],
                                     ret |-> cb(stopKeys, key, dirtyStorage[key])]))
             ELSE IF LeafLen(leaves[key]) > 0
             THEN IF split.err # NoError
                  THEN [calls |-> calls, err |-> split.err]
                  ELSE IF ~cb(stopKeys, key, split.content)
                  THEN [calls |-> Append(calls, [key |-> key, value |-> split.content,
                                                 ret |-> FALSE]),
                        err |-> NoError]
                  ELSE IterateDirtyGoesOn(Tail(keys), leaves, dirtyStorage, stopKeys,
                           Append(calls, [key |-> key, value |-> split.content,
                                          ret |-> TRUE]))
             ELSE IterateDirtyGoesOn(Tail(keys), leaves, dirtyStorage, stopKeys, calls)

\* for it.Next() { ... }: the calls of the callback made, in order, and the
\* error returned. keys are the trie keys still to come.
RECURSIVE IterateTrie(_, _, _, _, _)
IterateTrie(keys, leaves, dirtyStorage, stopKeys, calls) ==
    IF keys = <<>>
    THEN [calls |-> calls, err |-> NoError]
    ELSE LET key == Head(keys)
             split == rlpSplit(leaves[key])
         IN  IF key \in DOMAIN dirtyStorage
             THEN IF ~cb(stopKeys, key, dirtyStorage[key])
                  THEN [calls |-> Append(calls, [key |-> key, value |-> dirtyStorage[key],
                                                 ret |-> FALSE]),
                        err |-> NoError]
                  ELSE IterateTrie(Tail(keys), leaves, dirtyStorage, stopKeys,
                           Append(calls, [key |-> key, value |-> dirtyStorage[key],
                                          ret |-> TRUE]))
             ELSE IF LeafLen(leaves[key]) > 0
             THEN IF split.err # NoError
                  THEN [calls |-> calls, err |-> split.err]
                  ELSE IF ~cb(stopKeys, key, split.content)
                  THEN [calls |-> Append(calls, [key |-> key, value |-> split.content,
                                                 ret |-> FALSE]),
                        err |-> NoError]
                  ELSE IterateTrie(Tail(keys), leaves, dirtyStorage, stopKeys,
                           Append(calls, [key |-> key, value |-> split.content,
                                          ret |-> TRUE]))
             ELSE IterateTrie(Tail(keys), leaves, dirtyStorage, stopKeys, calls)

\* forEachStorage(s, addr, cb): the calls of the callback and the error returned.
forEachStorageResult(addr, stopKeys) ==
    LET so == getStateObject(addr)
        tr == storageTries[addr]
    IN  IF so = NilObject
        THEN [calls |-> <<>>, err |-> NoError]
        ELSE IF tr.status # "ok"
        THEN [calls |-> <<>>, err |-> tr.status]
        ELSE IterateTrie(TrieKeys(tr.leaves), tr.leaves, so[1].dirtyStorage, stopKeys, <<>>)

forEachStorage(addr, stopKeys) ==
    LET r == forEachStorageResult(addr, stopKeys)
    IN  /\ lastCall' = [op |-> "forEachStorage", addr |-> addr, stopKeys |-> stopKeys,
                        calls |-> r.calls, err |-> r.err]
        /\ pre' = NoPre
        /\ UNCHANGED <<activatedWasms, journal, validRevisions, wasmStore, snapKeys,
                       firstTargets, codecVars, recentVars, pageVars, facadeVars, recordingVars>>

\* ------------------------------------ CreateZombieIfDeleted, GetSelfDestructs

\* s.createZombie(addr): an empty account object is put at addr.
createZombie(objects, addr) ==
    [a \in DOMAIN objects \cup {addr} |->
        IF a = addr THEN StateObject(FALSE, NoStorage) ELSE objects[a]]

\* Mutant: the zombie is created whether or not the address was destructed.
CreateZombieIfAbsent(addr) ==
    IF getStateObject(addr) = NilObject
    THEN createZombie(stateObjects, addr)
    ELSE stateObjects

\* s.stateObjects after CreateZombieIfDeleted(addr).
CreateZombieIfDeletedResult(addr) ==
    IF getStateObject(addr) = NilObject
    THEN IF addr \in stateObjectsDestruct
         THEN createZombie(stateObjects, addr)
         ELSE stateObjects
    ELSE stateObjects

CreateZombieIfDeleted(addr) ==
    /\ stateObjects' = CreateZombieIfDeletedResult(addr)
    /\ lastCall' = [op |-> "CreateZombieIfDeleted", addr |-> addr,
                    before |-> <<stateObjects, stateObjectsDestruct, dirties, journal>>]
    /\ pre' = NoPre
    /\ UNCHANGED <<activatedWasms, journal, validRevisions, wasmStore, snapKeys,
                   firstTargets, stateObjectsDestruct, dirties, storageTries,
                   codecVars, recentVars, pageVars, recordingVars>>

\* The orders in which a range over a map with the keys given may go.
RangeOrders(keySet) ==
    {order \in [1..Cardinality(keySet) -> keySet] :
        \A i, j \in DOMAIN order : order[i] = order[j] => i = j}

\* Mutant: every dirtied address with an object is returned.
RECURSIVE SelfDestructsUnflagged(_, _)
SelfDestructsUnflagged(order, selfDestructs) ==
    IF order = <<>>
    THEN selfDestructs
    ELSE LET addr == Head(order)
         IN  IF addr \notin DOMAIN stateObjects
             THEN SelfDestructsUnflagged(Tail(order), selfDestructs)
             ELSE SelfDestructsUnflagged(Tail(order), Append(selfDestructs, addr))

\* for addr := range s.journal.dirties { ... }, over the addresses still to come.
RECURSIVE SelfDestructsOf(_, _)
SelfDestructsOf(order, selfDestructs) ==
    IF order = <<>>
    THEN selfDestructs
    ELSE LET addr == Head(order)
         IN  IF addr \notin DOMAIN stateObjects
             THEN SelfDestructsOf(Tail(order), selfDestructs)
             ELSE IF stateObjects[addr].selfDestructed
             THEN SelfDestructsOf(Tail(order), Append(selfDestructs, addr))
             ELSE SelfDestructsOf(Tail(order), selfDestructs)

GetSelfDestructs ==
    \E order \in RangeOrders(dirties) :
        /\ lastCall' = [op |-> "GetSelfDestructs", ret |-> SelfDestructsOf(order, <<>>),
                        before |-> <<stateObjects, stateObjectsDestruct, dirties, journal>>]
        /\ pre' = NoPre
        /\ UNCHANGED <<activatedWasms, journal, validRevisions, wasmStore, snapKeys,
                       firstTargets, codecVars, recentVars, pageVars, facadeVars, recordingVars>>

\* ------------------------------------------------------------- the prefix codec

\* Bytes: 0x00, 0x01, 0xEF, 0xF0 stand for all.
Bytes == {0, 1, 239, 240}
ByteStrings == UNION {[1..n -> Bytes] : n \in 0..MaxLen}

stylusEOFMagic == 239
stylusEOFMagicSuffix == 240
stylusEOFVersion == 0
StylusDiscriminant == <<stylusEOFMagic, stylusEOFMagicSuffix, stylusEOFVersion>>

\* Mutant: the length test forgets the dictionary byte.
IsStylusProgramShort(b) ==
    IF Len(b) < Len(StylusDiscriminant)
    THEN FALSE
    ELSE SubSeq(b, 1, 3) = StylusDiscriminant

IsStylusProgram(b) ==
    IF Len(b) < Len(StylusDiscriminant) + 1
    THEN FALSE
    ELSE SubSeq(b, 1, 3) = StylusDiscriminant

\* A call of IsStylusProgram on the byte string held.
CallIsStylusProgram ==
    /\ codecRet' = [op |-> "IsStylusProgram", ok |-> IsStylusProgram(code)]
    /\ UNCHANGED <<code, overlayVars, recentVars, pageVars, facadeVars, recordingVars>>

\* The nil []byte and the error value of StripStylusPrefix.
NilBytes == <<>>
NotStylusError == "specified bytecode is not a Stylus program"

\* Mutant: the body starts at the dictionary byte.
StripStylusPrefixFromDictionary(b) ==
    IF ~IsStylusProgram(b)
    THEN [body |-> NilBytes, isNil |-> TRUE, dictionary |-> 0, err |-> NotStylusError]
    ELSE [body |-> SubSeq(b, 4, Len(b)), isNil |-> FALSE, dictionary |-> b[4],
          err |-> NoError]

\* StripStylusPrefix(b): (nil, 0, error) or (b[4:], b[3], nil), offsets from 0.
StripStylusPrefix(b) ==
    IF ~IsStylusProgram(b)
    THEN [body |-> NilBytes, isNil |-> TRUE, dictionary |-> 0, err |-> NotStylusError]
    ELSE [body |-> SubSeq(b, 5, Len(b)), isNil |-> FALSE, dictionary |-> b[4],
          err |-> NoError]

\* NewStylusPrefix(dictionary): the discriminant followed by the dictionary byte.
NewStylusPrefix(dictionary) == Append(StylusDiscriminant, dictionary)

\* A call of StripStylusPrefix on the byte string held.
CallStripStylusPrefix ==
    /\ codecRet' = [op |-> "StripStylusPrefix", ret |-> StripStylusPrefix(code)]
    /\ UNCHANGED <<code, overlayVars, recentVars, pageVars, facadeVars, recordingVars>>

\* The payloads that leave room for the prefix within MaxLen bytes.
Payloads == UNION {[1..n -> Bytes] : n \in 0..(MaxLen - 4)}

\* A caller builds a program: NewStylusPrefix(dictionary) followed by a payload.
CallNewStylusPrefix(dictionary, payload) ==
    /\ Len(payload) + Len(NewStylusPrefix(dictionary)) <= MaxLen
    /\ code' = NewStylusPrefix(dictionary) \o payload
    /\ codecRet' = [op |-> "NewStylusPrefix", dictionary |-> dictionary,
                    payload |-> payload]
    /\ UNCHANGED <<overlayVars, recentVars, pageVars, facadeVars, recordingVars>>

\* --------------------------------------------------------------- RecentWasms

\* Items passed to Insert.
Items == Hashes \cup {"h3"}
\* The nil *lru.BasicLRU, and the pointers to allocated ones.
NilCache == 0
NoLRUs == [ptr \in {} |-> <<>>]

\* NewRecentWasms(): RecentWasms{cache: nil}
NewRecentWasms == [cache |-> NilCache]

\* lru.NewBasicLRU(capacity): an empty cache; keys holds the most recent first.
NewBasicLRU(capacity) == [cap |-> capacity, keys |-> <<>>]
\* BasicLRU.Get: whether the key is held. A hit changes nothing.
LRUHas(lru, key) == \E i \in 1..Len(lru.keys) : lru.keys[i] = key
\* BasicLRU.Add of a key not held: it becomes the most recent, and the least
\* recent is evicted when the capacity is exceeded.
LRUAdd(lru, key) ==
    LET added == <<key>> \o lru.keys
    IN  [lru EXCEPT !.keys = IF Len(added) > lru.cap THEN SubSeq(added, 1, lru.cap)
                             ELSE added]
\* The keys evicted by that Add.
LRUEvicted(lru, key) ==
    {lru.keys[i] : i \in {j \in 1..Len(lru.keys) : j + 1 > lru.cap}}
\* BasicLRU.Keys: the keys held, the least recent first.
LRUKeys(lru) == [i \in 1..Len(lru.keys) |-> lru.keys[Len(lru.keys) + 1 - i]]
\* The loop of Copy: each item is added to the new cache in turn.
RECURSIVE AddAll(_, _)
AddAll(lru, items) ==
    IF items = <<>> THEN lru ELSE AddAll(LRUAdd(lru, Head(items)), Tail(items))

\* The caller's RecentWasms after Insert: the receiver is passed by value, so
\* the cache allocated inside Insert is assigned to the callee's copy only.
ReceiverAfterInsert(p, cache) == p

\* The RecentWasms values held: by the StateDB, and by a copy of the StateDB.
Holders == {"statedb", "copy"}
Held(holder) == IF holder = "statedb" THEN recentWasms ELSE recentCopy

\* The allocated caches the RecentWasms values p and q refer to; the others
\* are garbage.
Referenced(heap, p, q) == [ptr \in DOMAIN heap \cap {p.cache, q.cache} |-> heap[ptr]]
\* A pointer no allocated cache has.
FreshPtr(heap) == CHOOSE ptr \in 1..(Cardinality(DOMAIN heap) + 1) : ptr \notin DOMAIN heap

\* The items the cache of a RecentWasms value holds.
Membership(heap, p) ==
    IF p.cache = NilCache
    THEN {}
    ELSE {heap[p.cache].keys[i] : i \in 1..Len(heap[p.cache].keys)}
OtherHolder(holder) == IF holder = "statedb" THEN "copy" ELSE "statedb"
\* recentHist when no Insert was made on a holder's value yet.
NoRetain == 0

\* RecentWasms.Insert on the RecentWasms value of a holder (GetRecentWasms
\* returns the value the StateDB holds).
Insert(holder, item, retain) ==
    LET p == Held(holder)
        cache == IF p.cache = NilCache THEN FreshPtr(lruHeap) ELSE p.cache
        lru == IF p.cache = NilCache THEN NewBasicLRU(retain) ELSE lruHeap[p.cache]
        hit == LRUHas(lru, item)
        after == IF hit THEN lru ELSE LRUAdd(lru, item)
        heap == [ptr \in DOMAIN lruHeap \cup {cache} |->
                    IF ptr = cache THEN after ELSE lruHeap[ptr]]
        kept == ReceiverAfterInsert(p, cache)
        evicted == IF hit THEN {} ELSE LRUEvicted(lru, item)
    IN  /\ recentWasms' = IF holder = "statedb" THEN kept ELSE recentWasms
        /\ recentCopy' = IF holder = "copy" THEN kept ELSE recentCopy
        /\ lruHeap' = Referenced(heap, recentWasms', recentCopy')
        /\ recentRet' = [op |-> "Insert", holder |-> holder, item |-> item,
                         retain |-> retain, hit |-> hit,
                         before |-> item \in inserted[holder],
                         cap |-> after.cap, size |-> Len(after.keys),
                         prev |-> recentRet.op,
                         otherBefore |-> Membership(lruHeap, Held(OtherHolder(holder)))]
        /\ inserted' = [inserted EXCEPT ![holder] = (@ \cup {item}) \ evicted]
        /\ recentHist' = [recentHist EXCEPT !.firstRetain[holder] =
                              IF @ = NoRetain THEN retain ELSE @]
        /\ UNCHANGED <<overlayVars, codecVars, pageVars, facadeVars, recordingVars>>

\* Mutant: the new cache has the capacity of the source but none of its items.
CopyWithoutEntries ==
    LET p == recentWasms
        cache == FreshPtr(lruHeap)
        heap == [ptr \in DOMAIN lruHeap \cup {cache} |->
                    IF ptr = cache THEN NewBasicLRU(lruHeap[p.cache].cap)
                    ELSE lruHeap[ptr]]
    IN  /\ recentCopy' = IF p.cache = NilCache THEN NewRecentWasms ELSE [cache |-> cache]
        /\ lruHeap' = IF p.cache = NilCache
                      THEN Referenced(lruHeap, recentWasms, recentCopy')
                      ELSE Referenced(heap, recentWasms, recentCopy')
        /\ recentRet' = [op |-> "Copy"]
        /\ inserted' = [inserted EXCEPT !["copy"] = inserted["statedb"]]
        /\ recentHist' = [firstRetain |-> [recentHist.firstRetain EXCEPT
                                              !["copy"] = recentHist.firstRetain["statedb"]],
                          copied |-> TRUE]
        /\ UNCHANGED <<recentWasms, overlayVars, codecVars, pageVars, facadeVars, recordingVars>>

\* Mutant: the copy refers to the cache of the source.
CopySharing ==
    /\ recentCopy' = recentWasms
    /\ lruHeap' = Referenced(lruHeap, recentWasms, recentCopy')
    /\ recentRet' = [op |-> "Copy"]
    /\ inserted' = [inserted EXCEPT !["copy"] = inserted["statedb"]]
    /\ recentHist' = [firstRetain |-> [recentHist.firstRetain EXCEPT
                                          !["copy"] = recentHist.firstRetain["statedb"]],
                      copied |-> TRUE]
    /\ UNCHANGED <<recentWasms, overlayVars, codecVars, pageVars, facadeVars, recordingVars>>

\* RecentWasms.Copy of the value the StateDB holds, into the copy of the StateDB.
Copy ==
    LET p == recentWasms
        cache == FreshPtr(lruHeap)
        copied == AddAll(NewBasicLRU(lruHeap[p.cache].cap), LRUKeys(lruHeap[p.cache]))
        heap == [ptr \in DOMAIN lruHeap \cup {cache} |->
                    IF ptr = cache THEN copied ELSE lruHeap[ptr]]
    IN  /\ recentCopy' = IF p.cache = NilCache THEN NewRecentWasms ELSE [cache |-> cache]
        /\ lruHeap' = IF p.cache = NilCache
                      THEN Referenced(lruHeap, recentWasms, recentCopy')
                      ELSE Referenced(heap, recentWasms, recentCopy')
        /\ recentRet' = [op |-> "Copy"]
        /\ inserted' = [inserted EXCEPT !["copy"] = inserted["statedb"]]
        /\ recentHist' = [firstRetain |-> [recentHist.firstRetain EXCEPT
                                              !["copy"] = recentHist.firstRetain["statedb"]],
                          copied |-> TRUE]
        /\ UNCHANGED <<recentWasms, overlayVars, codecVars, pageVars, facadeVars, recordingVars>>

\* ------------------------------------------- StartRecording, RecordProgram

\* make(UserWasms)
MakeUserWasms == [isNil |-> FALSE, wasms |-> [h \in {} |-> NilAsmMap]]

\* s.arbExtraData.userWasms[moduleHash] = asmMap
RecordUserWasm(recorded, moduleHash, asmMap) ==
    [recorded EXCEPT !.wasms =
        [h \in DOMAIN recorded.wasms \cup {moduleHash} |->
            IF h = moduleHash THEN asmMap ELSE recorded.wasms[h]]]

StartRecording ==
    /\ userWasms' = MakeUserWasms
    /\ recordingStarted' = TRUE
    /\ lastCall' = [op |-> "StartRecording"]
    /\ pre' = NoPre
    /\ UNCHANGED <<activatedWasms, journal, validRevisions, wasmStore, snapKeys,
                   firstTargets, codecVars, recentVars, pageVars, facadeVars>>

\* Mutant: missing targets do not fail the call.
RecordProgramIgnoringMissing(targets, moduleHash) ==
    LET r == ActivatedAsmMapResult(activatedWasms, targets, moduleHash)
    IN  IF Len(targets) = 0
        THEN [err |-> FALSE, userWasms |-> userWasms]
        ELSE IF r.err
        THEN [err |-> TRUE, userWasms |-> userWasms]
        ELSE IF ~userWasms.isNil
        THEN [err |-> FALSE, userWasms |-> RecordUserWasm(userWasms, moduleHash, r.asmMap)]
        ELSE [err |-> FALSE, userWasms |-> userWasms]

\* RecordProgram(targets, moduleHash): whether an error is returned, and
\* userWasms afterwards.
RecordProgramResult(targets, moduleHash) ==
    LET r == ActivatedAsmMapResult(activatedWasms, targets, moduleHash)
    IN  IF Len(targets) = 0
        THEN [err |-> FALSE, userWasms |-> userWasms]
        ELSE IF r.err \/ Len(r.missing) > 0
        THEN [err |-> TRUE, userWasms |-> userWasms]
        ELSE IF ~userWasms.isNil
        THEN [err |-> FALSE, userWasms |-> RecordUserWasm(userWasms, moduleHash, r.asmMap)]
        ELSE [err |-> FALSE, userWasms |-> userWasms]

RecordProgram(targets, moduleHash) ==
    LET r == RecordProgramResult(targets, moduleHash)
    IN  /\ userWasms' = r.userWasms
        /\ lastCall' = [op |-> "RecordProgram", targets |-> targets,
                        moduleHash |-> moduleHash, err |-> r.err,
                        before |-> userWasms, started |-> recordingStarted]
        /\ pre' = NoPre
        /\ UNCHANGED <<activatedWasms, journal, validRevisions, wasmStore, snapKeys,
                       firstTargets, recordingStarted, codecVars, recentVars, pageVars,
                       facadeVars>>

\* ------------------------------------------------------------- execStateTest

\* The four runs of a subtest, by the bit of executionMask that enables each.
SubtestRuns == {"hash/trie", "hash/snap", "path/trie", "path/snap"}
PermutationBit(permutation) ==
    CASE permutation = "hash/trie" -> 0
      [] permutation = "hash/snap" -> 1
      [] permutation = "path/trie" -> 2
      [] permutation = "path/snap" -> 3

\* The values of rand.Int63() drawn, and the draws of the subtests of a test.
Draws == 0..MaxDraw
DrawLists == UNION {[1..n -> Draws] : n \in 1..MaxSubtests}

\* Whether bit k of x is set (x & (1 << k) != 0).
BitSet(x, k) == (x \div (2 ^ k)) % 2 = 1

\* Mutant: the draw is masked with 3.
ExecutionMaskOfTwoBits(short, draw) ==
    IF short THEN 2 ^ (draw % 4) ELSE 15

\* executionMask: 0xf, or (1 << (rand.Int63() & 4)) under -short.
ExecutionMask(short, draw) ==
    IF short
    THEN 2 ^ (IF BitSet(draw, 2) THEN 4 ELSE 0)
    ELSE 15

\* The runs of one subtest that do not call t.Skip.
Executed(executionMask) ==
    {permutation \in SubtestRuns : BitSet(executionMask, PermutationBit(permutation))}

\* execStateTest on a test with one draw per subtest; short is testing.Short().
execStateTest(short, draws) ==
    /\ lastCall' = [op |-> "execStateTest", short |-> short, draws |-> draws,
                    ran |-> [i \in DOMAIN draws |-> Executed(ExecutionMask(short, draws[i]))]]
    /\ pre' = NoPre
    /\ UNCHANGED <<activatedWasms, journal, validRevisions, wasmStore, snapKeys,
                   firstTargets, codecVars, recentVars, pageVars, facadeVars,
                   recordingVars>>

\* ------------------------------------------------------------ specification

EmptyStore == [k \in StoreKeys |-> "notfound"]
NoWasms == [h \in {} |-> NilAsmMap]

\* A StateDB with nothing in flight, over the wasm store given.
InitOverlay(store) ==
    /\ activatedWasms = NoWasms
    /\ journal = <<>>
    /\ validRevisions = <<>>
    /\ wasmStore = store
    /\ lastCall = [op |-> "none"]
    /\ pre = NoPre
    /\ snapKeys = <<>>
    /\ firstTargets = NoTargets

\* No call of the prefix codec was made.
IdleCodec ==
    /\ code = <<>>
    /\ codecRet = [op |-> "none"]

\* recentWasms: NewRecentWasms(), in the StateDB and in its copy.
InitRecent ==
    /\ recentWasms = NewRecentWasms
    /\ recentCopy = NewRecentWasms
    /\ lruHeap = NoLRUs
    /\ recentRet = [op |-> "none"]
    /\ inserted = [holder \in Holders |-> {}]
    /\ recentHist = [firstRetain |-> [holder \in Holders |-> NoRetain], copied |-> FALSE]

\* The page counters of a new StateDB.
InitPages ==
    /\ openWasmPages = 0
    /\ everWasmPages = 0
    /\ snapPages = <<>>
    /\ pageCalls = 0

\* userWasms of a new StateDB: the nil map; nothing is recorded.
NilUserWasms == [isNil |-> TRUE, wasms |-> NoWasms]
NotRecording ==
    /\ userWasms = NilUserWasms
    /\ recordingStarted = FALSE

\* A StateDB with no account loaded.
NoAccounts ==
    /\ stateObjects = NoObjects
    /\ stateObjectsDestruct = {}
    /\ dirties = {}
    /\ storageTries = NoTries

Init ==
    /\ InitOverlay(EmptyStore)
    /\ IdleCodec
    /\ InitRecent
    /\ InitPages
    /\ NotRecording
    /\ NoAccounts

Next ==
    \/ \E moduleHash \in Hashes, asmMap \in ActivatedWasm : ActivateWasm(moduleHash, asmMap)
    \/ RecordCacheWasm(CacheWasm)
    \/ RecordEvictWasm(EvictWasm)
    \/ Snapshot
    \/ \E idx \in 1..Len(validRevisions) : RevertToSnapshot(idx)

Spec == Init /\ [][Next]_vars

\* The contents of the wasm store the lookups run over: any status for each
\* target of the first hash, and one status for the targets of the other hash
\* (a lookup reads only the entries of the hash it is asked for).
LookupStores ==
    {store \in [StoreKeys -> StoreStatus] :
        \A t1 \in Targets, t2 \in Targets : store[<<t1, "h2">>] = store[<<t2, "h2">>]}

InitLookup ==
    /\ \E store \in LookupStores : InitOverlay(store)
    /\ IdleCodec
    /\ InitRecent
    /\ InitPages
    /\ NotRecording
    /\ NoAccounts

NextLookup ==
    \/ \E moduleHash \in Hashes, asmMap \in ActivatedWasm : ActivateWasm(moduleHash, asmMap)
    \/ \E target \in Targets, moduleHash \in Hashes : ActivatedAsm(target, moduleHash)
    \/ \E targets \in TargetLists, moduleHash \in Hashes : ActivatedAsmMap(targets, moduleHash)

SpecLookup == InitLookup /\ [][NextLookup]_vars

\* The prefix codec, over any byte string.
InitCodec ==
    /\ InitOverlay(EmptyStore)
    /\ code \in ByteStrings
    /\ codecRet = [op |-> "none"]
    /\ InitRecent
    /\ InitPages
    /\ NotRecording
    /\ NoAccounts

NextCodec ==
    \/ CallIsStylusProgram
    \/ CallStripStylusPrefix
    \/ \E dictionary \in Bytes, payload \in Payloads :
            CallNewStylusPrefix(dictionary, payload)

SpecCodec == InitCodec /\ [][NextCodec]_vars

\* The page counters, with activations, snapshots and reverts.
PageBundles == {AsmMapOf([target \in {"t1"} |-> "a1"])}

NextPages ==
    \/ \E moduleHash \in Hashes, asmMap \in PageBundles : ActivateWasm(moduleHash, asmMap)
    \/ Snapshot
    \/ \E idx \in 1..Len(validRevisions) : RevertToSnapshot(idx)
    \/ \E new \in PageAmounts : AddStylusPages(new)
    \/ \E new \in PageAmounts : AddStylusPagesEver(new)
    \/ \E open \in PagesOpen : SetStylusPagesOpen(open)

SpecPages == Init /\ [][NextPages]_vars

\* The storage of one account: any dirty overlay over any persisted trie; the
\* other address has no object.
PartialMaps(D, R) == UNION {[dom -> R] : dom \in SUBSET D}

InitStorage ==
    /\ InitOverlay(EmptyStore)
    /\ IdleCodec
    /\ InitRecent
    /\ InitPages
    /\ NotRecording
    /\ \E dirtyStorage \in PartialMaps(Keys, DirtyValues) :
           stateObjects = [addr \in {"x1"} |-> StateObject(FALSE, dirtyStorage)]
    /\ stateObjectsDestruct = {}
    /\ dirties = {}
    /\ \E status \in TrieStatus, leaves \in PartialMaps(Keys, Leaves) :
           storageTries = [addr \in {"x1"} |-> StorageTrie(status, leaves)]

NextStorage ==
    \E addr \in Addresses, stopKeys \in SUBSET Keys : forEachStorage(addr, stopKeys)

SpecStorage == InitStorage /\ [][NextStorage]_vars

\* The accounts of the overlay: any objects, any addresses destructed in this
\* cycle, any addresses dirtied by the journal.
InitAccounts ==
    /\ InitOverlay(EmptyStore)
    /\ IdleCodec
    /\ InitRecent
    /\ InitPages
    /\ NotRecording
    /\ stateObjects \in PartialMaps(Addresses, {StateObject(flag, NoStorage) : flag \in BOOLEAN})
    /\ stateObjectsDestruct \in SUBSET Addresses
    /\ dirties \in SUBSET Addresses
    /\ storageTries = NoTries

NextAccounts ==
    \/ \E addr \in Addresses : CreateZombieIfDeleted(addr)
    \/ GetSelfDestructs

SpecAccounts == InitAccounts /\ [][NextAccounts]_vars

\* The recording of programs: over a store that holds any status for each
\* target of the first hash and nothing for the other hash, with bundles of one
\* artifact in flight.
RecordStores ==
    {store \in [StoreKeys -> StoreStatus] : \A t \in Targets : store[<<t, "h2">>] = "notfound"}
RecordBundles ==
    {NilAsmMap} \cup {AsmMapOf([t \in ts |-> "a1"]) : ts \in (SUBSET Targets) \ {{}}}

InitRecord ==
    /\ \E store \in RecordStores : InitOverlay(store)
    /\ IdleCodec
    /\ InitRecent
    /\ InitPages
    /\ NotRecording
    /\ NoAccounts

NextRecord ==
    \/ \E moduleHash \in Hashes, asmMap \in RecordBundles : ActivateWasm(moduleHash, asmMap)
    \/ StartRecording
    \/ \E targets \in TargetLists, moduleHash \in Hashes : RecordProgram(targets, moduleHash)

SpecRecord == InitRecord /\ [][NextRecord]_vars

\* The state test runner.
NextStateTest ==
    \E short \in BOOLEAN, draws \in DrawLists : execStateTest(short, draws)

SpecStateTest == Init /\ [][NextStateTest]_vars

\* The recent-wasms cache of a StateDB.
NextRecent ==
    \/ \E holder \in Holders, item \in Items, retain \in 1..MaxRetain :
          Insert(holder, item, retain)
    \/ Copy

SpecRecent == Init /\ [][NextRecent]_vars

\* The recent-wasms cache of a StateDB whose RecentWasms value is NewRecentWasms()
\* or has a cache allocated, of any capacity and holding any items within it:
\* the receivers Insert (line 354) and Copy (line 366) provide for.
ItemLists(capacity) ==
    {items \in UNION {[1..n -> Items] : n \in 0..capacity} :
        \A i, j \in DOMAIN items : items[i] = items[j] => i = j}

InitRecentAllocated ==
    \E capacity \in 1..MaxRetain : \E items \in ItemLists(capacity) :
        /\ recentWasms = [cache |-> 1]
        /\ recentCopy = NewRecentWasms
        /\ lruHeap = [ptr \in {1} |-> AddAll(NewBasicLRU(capacity), items)]
        /\ recentRet = [op |-> "none"]
        /\ inserted = [holder \in Holders |->
                          IF holder = "statedb" THEN {items[i] : i \in DOMAIN items} ELSE {}]
        /\ recentHist = [firstRetain |-> [holder \in Holders |->
                                             IF holder = "statedb" THEN capacity ELSE NoRetain],
                         copied |-> FALSE]

InitRecentAny ==
    /\ InitOverlay(EmptyStore)
    /\ IdleCodec
    /\ InitRecent \/ InitRecentAllocated
    /\ InitPages
    /\ NotRecording
    /\ NoAccounts

SpecRecentAny == InitRecentAny /\ [][NextRecent]_vars

\* ------------------------------------------------------------------ claims

\* The last call was an ActivateWasm.
Activated == lastCall.op = "ActivateWasm"
\* The StateDB before the last call, an ActivateWasm.
preWasms == pre[1]
preJournal == pre[2]

\* C1: after RevertToSnapshot(snapshot) the journal's length and the key set of
\* the in-flight layer are what they were when the snapshot was taken.
C1_RevertRestoresSnapshot ==
    lastCall.op = "RevertToSnapshot" =>
        /\ Len(journal) = lastCall.id
        /\ DOMAIN activatedWasms = lastCall.keys

\* A revert that removed a hash activated after the snapshot and kept one
\* activated before it.
C1_Witness ==
    /\ lastCall.op = "RevertToSnapshot"
    /\ lastCall.removed # {}
    /\ DOMAIN activatedWasms # {}

\* C2: every bundle ActivateWasm inserts carries the target set of the first
\* bundle inserted in the cycle.
C2_SameTargetsAsFirst ==
    (Activated /\ lastCall.inserted) => firstTargets = {lastCall.targets}

\* C3: with a bundle in flight, ActivateWasm of a bundle whose target set differs
\* from the in-flight one returns an error and leaves layer and journal as they were.
C3_MismatchRejected ==
    (/\ Activated
     /\ \E h \in DOMAIN preWasms : MapKeys(preWasms[h]) # lastCall.targets)
    => (lastCall.err /\ activatedWasms = preWasms /\ journal = preJournal)

\* An ActivateWasm that returned an error with bundles in flight.
C3_Witness ==
    /\ Activated
    /\ lastCall.err
    /\ DOMAIN preWasms # {}

\* C4 as stated: ActivateWasm of a hash already in flight returns success and
\* modifies nothing, whatever the bundle's target set.
C4_PresentAlwaysSucceeds ==
    (Activated /\ lastCall.moduleHash \in DOMAIN preWasms)
    => (~lastCall.err /\ stateDB = pre)

\* C4 as amended: ActivateWasm of a hash already in flight modifies nothing; it
\* returns success when the bundle's target set is that of the bundles in flight
\* and an error when it differs.
C4_PresentSucceedsIfConsistent ==
    (Activated /\ lastCall.moduleHash \in DOMAIN preWasms)
    => (/\ lastCall.err = (\E h \in DOMAIN preWasms : MapKeys(preWasms[h]) # lastCall.targets)
        /\ stateDB = pre)

\* A successful ActivateWasm of a hash that was in flight.
C4_Witness ==
    /\ Activated
    /\ lastCall.moduleHash \in DOMAIN preWasms
    /\ ~lastCall.err

\* C5: a second ActivateWasm of a hash still in flight leaves the bundle stored
\* under it and the journal's length as they were.
C5_NoSecondInsertion ==
    (Activated /\ lastCall.moduleHash \in DOMAIN preWasms)
    => (/\ lastCall.moduleHash \in DOMAIN activatedWasms
        /\ activatedWasms[lastCall.moduleHash] = preWasms[lastCall.moduleHash]
        /\ Len(journal) = Len(preJournal))

\* A second ActivateWasm of a hash in flight, passing a bundle of other targets
\* than the bundle stored under the hash.
C5_Witness ==
    /\ Activated
    /\ lastCall.moduleHash \in DOMAIN preWasms
    /\ MapKeys(preWasms[lastCall.moduleHash]) # lastCall.targets

\* The bundle ActivatedAsmMap finds in flight for the hash of the last call: the
\* map stored under the hash, when one is stored and it is not the nil map.
HasInFlightBundle ==
    /\ lastCall.moduleHash \in DOMAIN activatedWasms
    /\ ~activatedWasms[lastCall.moduleHash].isNil

InFlightWithTarget ==
    /\ lastCall.moduleHash \in DOMAIN activatedWasms
    /\ lastCall.target \in MapKeys(activatedWasms[lastCall.moduleHash])
InFlightWithoutTarget ==
    /\ lastCall.moduleHash \in DOMAIN activatedWasms
    /\ lastCall.target \notin MapKeys(activatedWasms[lastCall.moduleHash])

\* C8 as stated: ActivatedAsm returns the in-flight artifact when the hash is in
\* flight with the target, nothing when it is in flight without the target, and
\* what the store returns only when the hash is not in flight.
C8_InFlightMissIsNotFound ==
    lastCall.op = "ActivatedAsm" =>
        lastCall.asm =
            IF InFlightWithTarget
            THEN activatedWasms[lastCall.moduleHash].asm[lastCall.target]
            ELSE IF InFlightWithoutTarget
                 THEN NoAsm
                 ELSE dbActivatedAsm(lastCall.target, lastCall.moduleHash)

\* C8 as amended: ActivatedAsm returns the in-flight artifact when the hash is in
\* flight with the target, without reading the store; in every other case, the
\* hash in flight without the target included, it returns what the store returns.
C8_InFlightMissFallsBack ==
    lastCall.op = "ActivatedAsm" =>
        IF InFlightWithTarget
        THEN /\ lastCall.asm = activatedWasms[lastCall.moduleHash].asm[lastCall.target]
             /\ lastCall.dbReads = {}
        ELSE /\ lastCall.asm = dbActivatedAsm(lastCall.target, lastCall.moduleHash)
             /\ lastCall.dbReads = {<<lastCall.target, lastCall.moduleHash>>}

\* An ActivatedAsm of a hash in flight without the target, answered by the store
\* with an artifact.
C8_Witness ==
    /\ lastCall.op = "ActivatedAsm"
    /\ InFlightWithoutTarget
    /\ lastCall.asm \in Artifacts

\* C9: when ActivatedAsmMap falls back to the store and the store faults on a
\* requested target, it returns nil, all requested targets and an error.
C9_StoreFaultPropagates ==
    (/\ lastCall.op = "ActivatedAsmMap"
     /\ ~HasInFlightBundle
     /\ \E i \in 1..Len(lastCall.targets) :
           wasmStore[<<lastCall.targets[i], lastCall.moduleHash>>] = "fault")
    => (/\ lastCall.asmMap = NilAsmMap
        /\ lastCall.missing = lastCall.targets
        /\ lastCall.err)

\* C6: on the cache the StateDB holds, Insert(x) returns true exactly when x was
\* inserted before and has not been evicted since: false the first time, true
\* on every later call until x is evicted.
C6_HitIffInsertedBefore ==
    (recentRet.op = "Insert" /\ recentRet.holder = "statedb")
    => recentRet.hit = recentRet.before

\* C10 as stated: IsStylusProgram(b) holds exactly when b has at least 5 bytes
\* and starts with 0xEF 0xF0 0x00.
C10_MarkedIffFiveBytes ==
    codecRet.op = "IsStylusProgram" =>
        codecRet.ok = (/\ Len(code) >= 5
                       /\ code[1] = 239 /\ code[2] = 240 /\ code[3] = 0)

\* C10 as amended: IsStylusProgram(b) holds exactly when b has at least 4 bytes
\* and starts with 0xEF 0xF0 0x00.
C10_MarkedIffFourBytes ==
    codecRet.op = "IsStylusProgram" =>
        codecRet.ok = (/\ Len(code) >= 4
                       /\ code[1] = 239 /\ code[2] = 240 /\ code[3] = 0)

\* IsStylusProgram on the four bytes of a prefix with no payload.
C10_Witness ==
    /\ codecRet.op = "IsStylusProgram"
    /\ Len(code) = 4
    /\ codecRet.ok

\* C11: StripStylusPrefix of NewStylusPrefix(d) followed by a payload p succeeds
\* with body p and dictionary d, for every d and p (the empty p included); and
\* StripStylusPrefix returns an error, with a nil body, exactly when
\* IsStylusProgram is false on its input.
C11_StripInvertsBuild ==
    codecRet.op = "StripStylusPrefix" =>
        /\ \A d \in Bytes, p \in Payloads :
               code = <<239, 240, 0, d>> \o p =>
                   /\ codecRet.ret.err = NoError
                   /\ ~codecRet.ret.isNil
                   /\ codecRet.ret.body = p
                   /\ codecRet.ret.dictionary = d
        /\ (codecRet.ret.err # NoError) = ~IsStylusProgram(code)
        /\ codecRet.ret.err # NoError => codecRet.ret.isNil

\* StripStylusPrefix on a built program with a payload of one byte.
C11_Witness ==
    /\ codecRet.op = "StripStylusPrefix"
    /\ code = NewStylusPrefix(1) \o <<239>>
    /\ codecRet.ret.body = <<239>>
    /\ codecRet.ret.dictionary = 1

\* C14: AddStylusPages(n) returns the previous (open, ever) pair and leaves
\* open = min(open + n, 65535) and ever = max(ever, open); AddStylusPagesEver(n)
\* leaves ever = min(ever + n, 65535); neither ever makes a counter smaller.
C14_PagesSaturate ==
    /\ lastCall.op = "AddStylusPages" =>
           /\ lastCall.ret = lastCall.before
           /\ openWasmPages = (IF lastCall.before[1] + lastCall.new > 65535
                               THEN 65535 ELSE lastCall.before[1] + lastCall.new)
           /\ everWasmPages = (IF lastCall.before[2] > openWasmPages
                               THEN lastCall.before[2] ELSE openWasmPages)
           /\ openWasmPages >= lastCall.before[1]
           /\ everWasmPages >= lastCall.before[2]
    /\ lastCall.op = "AddStylusPagesEver" =>
           /\ openWasmPages = lastCall.before[1]
           /\ everWasmPages = (IF lastCall.before[2] + lastCall.new > 65535
                               THEN 65535 ELSE lastCall.before[2] + lastCall.new)
           /\ everWasmPages >= lastCall.before[2]

\* From (0, 0), adding 3, 5 and then 65530: the last call saturates.
C14_Witness ==
    /\ lastCall.op = "AddStylusPages"
    /\ lastCall.new = 65530
    /\ lastCall.ret = <<8, 8>>
    /\ openWasmPages = 65535
    /\ everWasmPages = 65535

\* C15: RevertToSnapshot leaves openWasmPages and everWasmPages as they were
\* right before the revert, also when they were changed after the snapshot,
\* while the activations made after the snapshot are rolled back.
C15_PagesNotJournaled ==
    lastCall.op = "RevertToSnapshot" =>
        /\ <<openWasmPages, everWasmPages>> = lastCall.pagesBefore
        /\ DOMAIN activatedWasms = lastCall.keys

\* A revert that removes an activation, after both counters changed since the
\* snapshot.
C15_Witness ==
    /\ lastCall.op = "RevertToSnapshot"
    /\ lastCall.removed # {}
    /\ lastCall.pagesBefore[1] # lastCall.pagesAtSnapshot[1]
    /\ lastCall.pagesBefore[2] # lastCall.pagesAtSnapshot[2]
    /\ openWasmPages = lastCall.pagesBefore[1]

\* The entries a merge of the dirty overlay over the persisted trie holds: every
\* dirty key with its dirty value, every other persisted key with its value.
Persisted(leaves) == {key \in DOMAIN leaves : leaves[key].kind = "string"}
MergedStorage(dirtyStorage, leaves) ==
    {<<key, dirtyStorage[key]>> : key \in DOMAIN dirtyStorage}
        \cup {<<key, leaves[key].content>> : key \in Persisted(leaves) \ DOMAIN dirtyStorage}

\* C12: forEachStorage with a callback that always returns true calls it exactly
\* once for every key of the dirty overlay, with the dirty value, exactly once
\* for every persisted key that is not dirty, with the persisted value, and for
\* nothing else.
C12_VisitsMergedStorage ==
    (/\ lastCall.op = "forEachStorage"
     /\ lastCall.stopKeys = {}
     /\ lastCall.err = NoError
     /\ lastCall.addr \in DOMAIN stateObjects) =>
        LET calls == lastCall.calls
        IN  /\ {<<calls[i].key, calls[i].value>> : i \in DOMAIN calls}
                   = MergedStorage(stateObjects[lastCall.addr].dirtyStorage,
                                   storageTries[lastCall.addr].leaves)
            /\ \A i, j \in DOMAIN calls : calls[i].key = calls[j].key => i = j

\* C13: once the callback has returned false it is not called again in that
\* call of forEachStorage, and the call returns no error.
C13_StopsAtFalse ==
    lastCall.op = "forEachStorage" =>
        \A i \in DOMAIN lastCall.calls :
            ~lastCall.calls[i].ret => i = Len(lastCall.calls) /\ lastCall.err = NoError

\* The callback returns false on a dirty first key while a persisted key is
\* still to come.
C13_Witness ==
    /\ lastCall.op = "forEachStorage"
    /\ lastCall.addr \in DOMAIN stateObjects
    /\ Len(lastCall.calls) = 1
    /\ ~lastCall.calls[1].ret
    /\ lastCall.calls[1].key = 1
    /\ 1 \in DOMAIN stateObjects[lastCall.addr].dirtyStorage
    /\ 2 \in Persisted(storageTries[lastCall.addr].leaves)
    /\ 2 \notin DOMAIN stateObjects[lastCall.addr].dirtyStorage

\* C18: CreateZombieIfDeleted(addr) puts an empty account object at addr if and
\* only if there was no live object at addr and addr is recorded as destructed
\* in this cycle; in every other case it changes nothing.
C18_ZombieIffDeleted ==
    lastCall.op = "CreateZombieIfDeleted" =>
        LET addr == lastCall.addr
            objects == lastCall.before[1]
            destructed == lastCall.before[2]
        IN  /\ <<stateObjectsDestruct, dirties, journal>>
                   = <<lastCall.before[2], lastCall.before[3], lastCall.before[4]>>
            /\ \A a \in Addresses \ {addr} :
                   /\ a \in DOMAIN stateObjects <=> a \in DOMAIN objects
                   /\ a \in DOMAIN objects => stateObjects[a] = objects[a]
            /\ IF addr \notin DOMAIN objects /\ addr \in destructed
               THEN /\ addr \in DOMAIN stateObjects
                    /\ stateObjects[addr] = [selfDestructed |-> FALSE,
                                             dirtyStorage |-> NoStorage]
               ELSE stateObjects = objects

\* A zombie was created at a destructed address that had no object.
C18_Witness ==
    /\ lastCall.op = "CreateZombieIfDeleted"
    /\ lastCall.addr \notin DOMAIN lastCall.before[1]
    /\ lastCall.addr \in lastCall.before[2]
    /\ lastCall.addr \in DOMAIN stateObjects

\* C19: GetSelfDestructs returns, each exactly once, the addresses of the
\* journal's dirtied set that have an object in the overlay flagged
\* self-destructed, and no other address; it modifies nothing.
C19_SelfDestructsOfDirties ==
    lastCall.op = "GetSelfDestructs" =>
        LET ret == lastCall.ret
        IN  /\ {ret[i] : i \in DOMAIN ret}
                   = {addr \in dirties : /\ addr \in DOMAIN stateObjects
                                          /\ stateObjects[addr].selfDestructed}
            /\ \A i, j \in DOMAIN ret : ret[i] = ret[j] => i = j
            /\ <<stateObjects, stateObjectsDestruct, dirties, journal>> = lastCall.before

\* One address returned, with a dirtied address that has no object and a
\* self-destructed object that was not dirtied.
C19_Witness ==
    /\ lastCall.op = "GetSelfDestructs"
    /\ lastCall.ret = <<"x1">>
    /\ dirties = {"x1", "x3"}
    /\ "x3" \notin DOMAIN stateObjects
    /\ "x2" \in DOMAIN stateObjects
    /\ stateObjects["x2"].selfDestructed

\* C16: after a Copy, an Insert on the copy leaves the membership of the source
\* cache as it was, and an Insert on the source leaves the membership of the
\* copy as it was.
C16_CopyIsIndependent ==
    (recentHist.copied /\ recentRet.op = "Insert") =>
        Membership(lruHeap, Held(OtherHolder(recentRet.holder))) = recentRet.otherBefore

\* After a Copy of a cache that holds an item, the copy took in a new item.
C16_Witness ==
    /\ recentHist.copied
    /\ recentRet.op = "Insert"
    /\ recentRet.holder = "copy"
    /\ ~recentRet.hit
    /\ recentRet.otherBefore # {}
    /\ recentRet.item \notin recentRet.otherBefore
    /\ recentRet.item \in Membership(lruHeap, recentCopy)

\* C17: the cache an Insert works on has the capacity given by the retain of
\* the first Insert, whatever retain the later calls pass, and holds no more
\* entries than that capacity.
C17_CapacityOfFirstInsert ==
    recentRet.op = "Insert" =>
        /\ recentRet.cap = recentHist.firstRetain[recentRet.holder]
        /\ recentRet.size <= recentRet.cap

C22_CopyEqualsSource ==
    /\ recentRet.op = "Copy" =>
           /\ (recentCopy.cache = NilCache) = (recentWasms.cache = NilCache)
           /\ recentCopy.cache # NilCache =>
                  /\ lruHeap[recentCopy.cache].cap = lruHeap[recentWasms.cache].cap
                  /\ Membership(lruHeap, recentCopy) = Membership(lruHeap, recentWasms)
    /\ (recentRet.op = "Insert" /\ recentRet.prev = "Copy" /\ recentRet.holder = "copy") =>
           recentRet.hit = (recentRet.item \in Membership(lruHeap, recentWasms))

\* The first Insert on a copy finds an item the source held when it was copied.
C22_Witness ==
    /\ recentRet.op = "Insert"
    /\ recentRet.prev = "Copy"
    /\ recentRet.holder = "copy"
    /\ recentRet.hit
    /\ Cardinality(Membership(lruHeap, recentWasms)) > 1

\* C23: all bundles in flight have the same target set, and the verdict of
\* ActivateWasm, taken against the one bundle its loop happens to visit, is the
\* verdict against every bundle that was in flight.
C23_InFlightTargetsAgree ==
    /\ \A h1, h2 \in DOMAIN activatedWasms :
           MapKeys(activatedWasms[h1]) = MapKeys(activatedWasms[h2])
    /\ Activated =>
           /\ lastCall.err =
                  (\E h \in DOMAIN preWasms : MapKeys(preWasms[h]) # lastCall.targets)
           /\ lastCall.err =
                  (/\ DOMAIN preWasms # {}
                   /\ \A h \in DOMAIN preWasms : MapKeys(preWasms[h]) # lastCall.targets)

\* ActivateWasm was refused while two bundles with a target were in flight.
C23_Witness ==
    /\ Activated
    /\ lastCall.err
    /\ Cardinality(DOMAIN activatedWasms) = 2
    /\ \A h \in DOMAIN activatedWasms : MapKeys(activatedWasms[h]) # {}

\* C24: every hash in flight has exactly one activation entry in the journal,
\* and every activation entry of the journal names a hash in flight.
C24_ActivationEntriesMatchKeys ==
    LET entriesOf(h) == {i \in 1..Len(journal) : journal[i] = wasmActivation(h)}
    IN  /\ \A h \in DOMAIN activatedWasms : Cardinality(entriesOf(h)) = 1
        /\ \A i \in 1..Len(journal) :
               journal[i].kind = "wasmActivation" =>
                   journal[i].moduleHash \in DOMAIN activatedWasms

\* A revert undid one activation and left an earlier one in flight.
C24_Witness ==
    /\ lastCall.op = "RevertToSnapshot"
    /\ lastCall.removed # {}
    /\ DOMAIN activatedWasms # {}
    /\ \E i \in 1..Len(journal) : journal[i].kind = "wasmActivation"

\* C25: the high-water mark is never below the current count of open pages.
C25_EverAtLeastOpen == everWasmPages >= openWasmPages

\* C26: RecordProgram with a non-empty target list returns success iff the
\* lookup finds every target (in the in-flight bundle if there is one, in the
\* store otherwise); on failure userWasms is unchanged; on success the hash is
\* recorded with the bundle found if StartRecording was called before and
\* nothing is recorded otherwise; with an empty list it returns success and
\* records nothing.
C26_RecordsFoundProgram ==
    lastCall.op = "RecordProgram" =>
        LET h == lastCall.moduleHash
            requested == {lastCall.targets[i] : i \in 1..Len(lastCall.targets)}
            found == IF HasInFlightBundle
                     THEN requested \subseteq MapKeys(activatedWasms[h])
                     ELSE \A t \in requested : wasmStore[<<t, h>>] \in Artifacts
            bundle == IF HasInFlightBundle
                      THEN activatedWasms[h]
                      ELSE [isNil |-> FALSE, asm |-> [t \in requested |-> wasmStore[<<t, h>>]]]
        IN  IF lastCall.targets = <<>>
            THEN ~lastCall.err /\ userWasms = lastCall.before
            ELSE /\ lastCall.err = ~found
                 /\ lastCall.err => userWasms = lastCall.before
                 /\ (~lastCall.err /\ ~lastCall.started) => userWasms = lastCall.before
                 /\ (~lastCall.err /\ lastCall.started) =>
                        /\ ~userWasms.isNil
                        /\ DOMAIN userWasms.wasms = DOMAIN lastCall.before.wasms \cup {h}
                        /\ userWasms.wasms[h] = bundle
                        /\ \A g \in DOMAIN lastCall.before.wasms \ {h} :
                               userWasms.wasms[g] = lastCall.before.wasms[g]

\* A program found in the store was recorded next to one recorded before.
C26_Witness ==
    /\ lastCall.op = "RecordProgram"
    /\ ~lastCall.err
    /\ lastCall.started
    /\ ~HasInFlightBundle
    /\ Len(lastCall.targets) = 2
    /\ lastCall.moduleHash \notin DOMAIN lastCall.before.wasms
    /\ Cardinality(DOMAIN userWasms.wasms) = 2

\* C27: under -short exactly one of the four permutations of every subtest is
\* executed, whatever the random draw; without -short all four are.
C27_ShortRunsExactlyOne ==
    lastCall.op = "execStateTest" =>
        \A i \in DOMAIN lastCall.ran :
            IF lastCall.short
            THEN Cardinality(lastCall.ran[i]) = 1
            ELSE lastCall.ran[i] = {"hash/trie", "hash/snap", "path/trie", "path/snap"}

====
